---------------------------- MODULE Spec2Model ----------------------------
(***************************************************************************)
(* ScreenQA answer metrics (metrics.py): SQuAD text normalisation, token   *)
(* F1, bounding-box IoU, positional exact match and the assignment F1      *)
(* built on a linear-sum-assignment solver, and the three entry points     *)
(* sqa_s_metrics, sqa_uic_metrics and sqa_uic_bb_metrics.                  *)
(*                                                                         *)
(* The library is stateless.  A behaviour of the model is one or two       *)
(* calls: Init draws the arguments, an action applies the function to them *)
(* and records what it returned.                                           *)
(*                                                                         *)
(* Numbers.  Python computes the scores in binary floating point; the      *)
(* model computes them as exact rationals <<numerator, denominator>> in    *)
(* lowest terms with a positive denominator.  The integers 0 and 1 that    *)
(* the code returns on its short-circuit paths are <<0, 1>> and <<1, 1>>   *)
(* (Python compares 1 == 1.0 as equal).                                    *)
(***************************************************************************)
EXTENDS Integers, Sequences, FiniteSets, TLC

VARIABLES
  fn,        \* the function this run calls
  pc,        \* "start", "called" (after the first call), "done"
  args,      \* the arguments drawn for the call
  lsa,       \* the solver: negated score matrix |-> the assignment it returns
  returned,  \* the values returned so far, in call order
  called     \* the helpers the entry point invoked

vars == <<fn, pc, args, lsa, returned, called>>

(***************************************************************************)
(* Bounds of the model.                                                    *)
(***************************************************************************)
\* largest box coordinate drawn for a direct call of iou
MaxCoord == 2
\* most items, in both lists together, handed to a direct call of
\* uic_bb_f1_score
MaxItems == 4
\* most tokens, in both lists together, handed to a direct call of f1_score
MaxTokens == 5
\* size of an entry point's input: the length of the prediction plus, for
\* each ground truth, one plus its length (NO_ANSWER counts as length 1)
MaxTextSize == 6
MaxUicSize == 6
MaxBBSize == 5

(***************************************************************************)
(* Rational arithmetic.                                                    *)
(***************************************************************************)
Abs(x) == IF x < 0 THEN -x ELSE x

RECURSIVE GCD(_, _)
GCD(a, b) == IF b = 0 THEN a ELSE GCD(b, a % b)

\* n/d in lowest terms, d # 0
Rat(n, d) ==
  LET g == GCD(Abs(n), Abs(d))
      s == IF d < 0 THEN -1 ELSE 1
  IN  <<(s * n) \div g, (s * d) \div g>>

Zero == <<0, 1>>
One == <<1, 1>>

RatLeq(p, q) == p[1] * q[2] <= q[1] * p[2]
RatLt(p, q) == p[1] * q[2] < q[1] * p[2]
RatAdd(p, q) == Rat(p[1] * q[2] + q[1] * p[2], p[2] * q[2])
RatNeg(p) == <<-p[1], p[2]>>
RatMul(p, q) == Rat(p[1] * q[1], p[2] * q[2])
RatDiv(p, q) == Rat(p[1] * q[2], p[2] * q[1])
RatMax(p, q) == IF RatLt(p, q) THEN q ELSE p

\* Python's max() of a non-empty list
RECURSIVE MaxOf(_)
MaxOf(s) == IF Len(s) = 1 THEN s[1] ELSE RatMax(s[1], MaxOf(Tail(s)))

Range(s) == {s[i] : i \in DOMAIN s}

Min2(a, b) == IF a < b THEN a ELSE b
Max2(a, b) == IF a < b THEN b ELSE a

(***************************************************************************)
(* iou: boxes are <<ymin, xmin, ymax, xmax>> (Python indices 0..3 are 1..4 *)
(* here).  A zero denominator raises ZeroDivisionError (inverted boxes).   *)
(***************************************************************************)
intersection_area(bbox1, bbox2) ==
  LET ymin == Max2(bbox1[1], bbox2[1])
      xmin == Max2(bbox1[2], bbox2[2])
      ymax == Min2(bbox1[3], bbox2[3])
      xmax == Min2(bbox1[4], bbox2[4])
  IN  Max2(0, xmax - xmin) * Max2(0, ymax - ymin)

bbox_area(bbox) == (bbox[4] - bbox[2]) * (bbox[3] - bbox[1])

\* iou with the first box's area for the union
iou_first_area(bbox1, bbox2) ==
  LET inter == intersection_area(bbox1, bbox2)
  IN  IF inter = 0 THEN Zero ELSE Rat(inter, bbox_area(bbox1))

iou(bbox1, bbox2) ==
  LET inter == intersection_area(bbox1, bbox2)
      union == bbox_area(bbox1) + bbox_area(bbox2) - inter
  IN  IF inter = 0 THEN Zero
      ELSE IF union = 0 THEN "ZeroDivisionError"
      ELSE Rat(inter, union)

ValidBox(b) == b[1] <= b[3] /\ b[2] <= b[4]

Coords == 0..MaxCoord
AllBoxes == Coords \X Coords \X Coords \X Coords

InitIou ==
  /\ fn = "iou"
  /\ pc = "start"
  /\ args \in [bbox1 : AllBoxes, bbox2 : AllBoxes]
  /\ lsa = <<>>
  /\ returned = <<>>
  /\ called = {}

\* iou(bbox1, bbox2), then iou(bbox2, bbox1)
CallIou ==
  /\ fn = "iou" /\ pc = "start"
  /\ returned' = <<iou(args.bbox1, args.bbox2)>>
  /\ pc' = "called"
  /\ UNCHANGED <<fn, args, lsa, called>>

CallIouSwapped ==
  /\ fn = "iou" /\ pc = "called"
  /\ returned' = Append(returned, iou(args.bbox2, args.bbox1))
  /\ pc' = "done"
  /\ UNCHANGED <<fn, args, lsa, called>>

NextIou == CallIou \/ CallIouSwapped

SpecIou == InitIou /\ [][NextIou]_vars

(***************************************************************************)
(* uic_bb_f1_score.  A score matrix is a function on (1..n) \X (1..m).     *)
(*                                                                         *)
(* scipy.optimize.linear_sum_assignment is the supplied solver: for a cost *)
(* matrix of shape n x m it returns min(n, m) row/column pairs, no row and *)
(* no column twice, of minimal total cost.  It is deterministic, but which *)
(* of several optimal assignments it returns is not part of its contract:  *)
(* linear_sum_assignment is the set of assignments it may return, and the  *)
(* variable lsa is the solver of one run, a function chosen at Init among  *)
(* those that answer every matrix of the run with an optimal assignment.   *)
(***************************************************************************)
Injections(S, T) == {f \in [S -> T] : \A a, b \in S : f[a] = f[b] => a = b}

Assignments(n, m) ==
  IF n <= m
  THEN {{<<i, f[i]>> : i \in 1..n} : f \in Injections(1..n, 1..m)}
  ELSE {{<<g[j], j>> : j \in 1..m} : g \in Injections(1..m, 1..n)}

RECURSIVE Total(_, _)
Total(C, M) ==
  IF M = {} THEN Zero
  ELSE LET p == CHOOSE q \in M : TRUE
       IN  RatAdd(C[p], Total(C, M \ {p}))

NumRows(C) == Cardinality({p[1] : p \in DOMAIN C})
NumCols(C) == Cardinality({p[2] : p \in DOMAIN C})

\* a greedy matcher: each row in turn takes its cheapest free column
RECURSIVE GreedyFrom(_, _, _)
GreedyFrom(cost, i, free) ==
  IF i > NumRows(cost) \/ free = {} THEN {}
  ELSE LET j == CHOOSE c \in free :
                  \A d \in free : /\ RatLeq(cost[<<i, c>>], cost[<<i, d>>])
                                  /\ (cost[<<i, d>>] = cost[<<i, c>>] => c <= d)
       IN  {<<i, j>>} \cup GreedyFrom(cost, i + 1, free \ {j})

linear_sum_assignment_greedy(cost) == {GreedyFrom(cost, 1, 1..NumCols(cost))}

linear_sum_assignment(cost) ==
  LET all == Assignments(NumRows(cost), NumCols(cost))
      total == [M \in all |-> Total(cost, M)]
  IN  {M \in all : \A M2 \in all : RatLeq(total[M], total[M2])}

Negate(C) == [p \in DOMAIN C |-> RatNeg(C[p])]

\* score_func is a function value: score_func[<<x, y>>] is score_func(x, y)
cost_matrix(prediction, ground_truth, score_func, threshold) ==
  [p \in (1..Len(prediction)) \X (1..Len(ground_truth)) |->
     LET score == score_func[<<prediction[p[1]], ground_truth[p[2]]>>]
     IN  IF RatLeq(threshold, score) THEN score ELSE Zero]

harmonic_mean(precision, recall) ==
  RatDiv(RatMul(<<2, 1>>, RatMul(precision, recall)), RatAdd(precision, recall))

uic_bb_f1_score(prediction, ground_truth, score_func, threshold, solver) ==
  IF Len(prediction) = 0 /\ Len(ground_truth) = 0 THEN One
  ELSE IF Len(prediction) = 0 \/ Len(ground_truth) = 0 THEN Zero
  ELSE
    LET C == cost_matrix(prediction, ground_truth, score_func, threshold)
        idxs == solver[Negate(C)]
        matches == Cardinality({p \in idxs : RatLeq(threshold, C[p])})
        precision == Rat(matches, Len(prediction))
        recall == Rat(matches, Len(ground_truth))
    IN  IF matches = 0 THEN Zero ELSE harmonic_mean(precision, recall)

\* the solvers that answer each matrix of Ms with an optimal assignment
RECURSIVE Solvers(_)
Solvers(Ms) ==
  IF Ms = {} THEN {<<>>}
  ELSE LET M == CHOOSE X \in Ms : TRUE
       IN  {(M :> a) @@ s : a \in linear_sum_assignment(M), s \in Solvers(Ms \ {M})}

(***************************************************************************)
(* Direct calls of uic_bb_f1_score.  The two lists hold distinct items     *)
(* <<"p", i>> and <<"g", j>>; score_func is a table of scores read         *)
(* symmetrically, so every n x m matrix of the drawn scores occurs and     *)
(* score_func(x, y) = score_func(y, x).  A score_func is passed as a       *)
(* function value on the pairs of elements it is applied to.               *)
(***************************************************************************)
ScoreValues == {Zero, <<1, 2>>, One}
Thresholds == {Zero, <<1, 2>>, One}

Items(tag, n) == [i \in 1..n |-> <<tag, i>>]

\* the pairs <<x, y>> and <<y, x>> of an element of A and one of B
CrossPairs(A, B) == (Range(A) \X Range(B)) \cup (Range(B) \X Range(A))

table_score(a) ==
  [p \in CrossPairs(a.prediction, a.ground_truth) |->
     IF p[1][1] = "p" THEN a.scores[<<p[1][2], p[2][2]>>]
     ELSE a.scores[<<p[2][2], p[1][2]>>]]

AssignMatrices(a) ==
  IF Len(a.prediction) = 0 \/ Len(a.ground_truth) = 0 THEN {}
  ELSE { Negate(cost_matrix(a.prediction, a.ground_truth, table_score(a), a.threshold)),
         Negate(cost_matrix(a.ground_truth, a.prediction, table_score(a), a.threshold)) }

InitAssign ==
  /\ fn = "uic_bb_f1_score"
  /\ pc = "start"
  /\ \E n, m \in 0..MaxItems :
       /\ n + m <= MaxItems
       /\ args \in [prediction : {Items("p", n)}, ground_truth : {Items("g", m)},
                    scores : [(1..n) \X (1..m) -> ScoreValues],
                    threshold : Thresholds]
  /\ lsa \in Solvers(AssignMatrices(args))
  /\ returned = <<>>
  /\ called = {}

\* uic_bb_f1_score(A, B, score_func, threshold)
CallAssign ==
  /\ fn = "uic_bb_f1_score" /\ pc = "start"
  /\ returned' = <<uic_bb_f1_score(args.prediction, args.ground_truth,
                                   table_score(args), args.threshold, lsa)>>
  /\ pc' = "called"
  /\ UNCHANGED <<fn, args, lsa, called>>

\* uic_bb_f1_score(B, A, score_func, threshold)
CallAssignSwapped ==
  /\ fn = "uic_bb_f1_score" /\ pc = "called"
  /\ returned' = Append(returned,
                        uic_bb_f1_score(args.ground_truth, args.prediction,
                                        table_score(args), args.threshold, lsa))
  /\ pc' = "done"
  /\ UNCHANGED <<fn, args, lsa, called>>

NextAssign == CallAssign \/ CallAssignSwapped

SpecAssign == InitAssign /\ [][NextAssign]_vars

(***************************************************************************)
(* f1_score: multiset-intersection F1 of two token lists.                  *)
(***************************************************************************)
Count(s, t) == Cardinality({i \in DOMAIN s : s[i] = t})

RECURSIVE SumMin(_, _, _)
SumMin(T, s1, s2) ==
  IF T = {} THEN 0
  ELSE LET t == CHOOSE x \in T : TRUE
       IN  Min2(Count(s1, t), Count(s2, t)) + SumMin(T \ {t}, s1, s2)

\* the prediction's tokens that occur in the ground truth, not clipped to
\* the ground truth's counts
num_same_unclipped(prediction_tokens, ground_truth_tokens) ==
  Cardinality({i \in DOMAIN prediction_tokens :
                 prediction_tokens[i] \in Range(ground_truth_tokens)})

\* sum((Counter(a) & Counter(b)).values())
num_same(prediction_tokens, ground_truth_tokens) ==
  SumMin(Range(prediction_tokens) \cap Range(ground_truth_tokens),
         prediction_tokens, ground_truth_tokens)

\* F1 over the sets of tokens: duplicates counted once
f1_score_of_sets(prediction_tokens, ground_truth_tokens) ==
  LET same == Cardinality(Range(prediction_tokens) \cap Range(ground_truth_tokens))
      precision == Rat(same, Len(prediction_tokens))
      recall == Rat(same, Len(ground_truth_tokens))
  IN  IF same = 0 THEN Zero ELSE harmonic_mean(precision, recall)

f1_score(prediction_tokens, ground_truth_tokens) ==
  LET same == num_same(prediction_tokens, ground_truth_tokens)
      precision == Rat(same, Len(prediction_tokens))
      recall == Rat(same, Len(ground_truth_tokens))
  IN  IF same = 0 THEN Zero ELSE harmonic_mean(precision, recall)

\* plain equality as a score_func, on the elements of A and B
equal_score(A, B) ==
  [p \in CrossPairs(A, B) |-> IF p[1] = p[2] THEN One ELSE Zero]

Contents == {"btn", "lbl", "img"}
EqThresholds == {<<1, 10>>, <<1, 2>>, One}

RECURSIVE SeqsUpTo(_, _)
SeqsUpTo(S, n) ==
  IF n = 0 THEN {<<>>}
  ELSE LET shorter == SeqsUpTo(S, n - 1)
       IN  shorter \cup {Append(q, x) : q \in {r \in shorter : Len(r) = n - 1}, x \in S}

F1Matrices(a) ==
  IF Len(a.prediction) = 0 \/ Len(a.ground_truth) = 0 THEN {}
  ELSE {Negate(cost_matrix(a.prediction, a.ground_truth,
                          equal_score(a.prediction, a.ground_truth), a.threshold))}

InitF1 ==
  /\ fn = "f1_score"
  /\ pc = "start"
  /\ \E p \in SeqsUpTo(Contents, MaxTokens) :
       args \in [prediction : {p},
                 ground_truth : SeqsUpTo(Contents, MaxTokens - Len(p)),
                 threshold : EqThresholds]
  /\ lsa \in Solvers(F1Matrices(args))
  /\ returned = <<>>
  /\ called = {}

\* f1_score(prediction, ground_truth)
CallF1 ==
  /\ fn = "f1_score" /\ pc = "start"
  /\ returned' = <<f1_score(args.prediction, args.ground_truth)>>
  /\ pc' = "called"
  /\ UNCHANGED <<fn, args, lsa, called>>

\* uic_bb_f1_score(prediction, ground_truth, equality, threshold)
CallAssignEqual ==
  /\ fn = "f1_score" /\ pc = "called"
  /\ returned' = Append(returned,
                        uic_bb_f1_score(args.prediction, args.ground_truth,
                                        equal_score(args.prediction, args.ground_truth),
                                        args.threshold, lsa))
  /\ pc' = "done"
  /\ UNCHANGED <<fn, args, lsa, called>>

NextF1 == CallF1 \/ CallAssignEqual

SpecF1 == InitF1 /\ [][NextF1]_vars

(***************************************************************************)
(* normalize_squad.  A text is a sequence of one-character strings.        *)
(***************************************************************************)
NO_ANSWER == <<"<", "n", "o", " ", "a", "n", "s", "w", "e", "r", ">">>

UpperCase == <<"A", "B", "C", "D", "E", "F", "G", "H", "I", "J", "K", "L", "M",
               "N", "O", "P", "Q", "R", "S", "T", "U", "V", "W", "X", "Y", "Z">>
LowerCase == <<"a", "b", "c", "d", "e", "f", "g", "h", "i", "j", "k", "l", "m",
               "n", "o", "p", "q", "r", "s", "t", "u", "v", "w", "x", "y", "z">>
Digits == {"0", "1", "2", "3", "4", "5", "6", "7", "8", "9"}
\* string.punctuation, less the backquote, which a TLA+ string cannot hold
\* (no text of the model contains one)
Punctuation == {"!", "\"", "#", "$", "%", "&", "'", "(", ")", "*", "+", ",", "-",
                ".", "/", ":", ";", "<", "=", ">", "?", "@", "[", "\\", "]", "^",
                "_", "{", "|", "}", "~"}
\* what str.split() splits on among the ASCII characters: space, \t, \n,
\* \r, \f, and the control characters 0x0B (vertical tab), 0x1C, 0x1D,
\* 0x1E, 0x1F, which stand in the strings below as themselves (a TLA+
\* string has no escape for them).  The texts of the model are ASCII, as
\* for lower_char and WordChars; the separators outside ASCII (0x85, 0xA0
\* and the Unicode spaces) are not modelled.
Whitespace == {" ", "\t", "\n", "\r", "\f",
               "", "", "", "", ""}
\* \w of the regular expression
WordChars == Range(UpperCase) \cup Range(LowerCase) \cup Digits \cup {"_"}
Articles == {<<"a">>, <<"a", "n">>, <<"t", "h", "e">>}

lower_char(ch) ==
  IF ch \in Range(UpperCase)
  THEN LowerCase[CHOOSE i \in DOMAIN UpperCase : UpperCase[i] = ch]
  ELSE ch

\* text.lower()
lower(text) == [i \in DOMAIN text |-> lower_char(text[i])]

RECURSIVE replace_punctuation(_, _)
replace_punctuation(s, punc_repl) ==
  IF s = <<>> THEN <<>>
  ELSE (IF Head(s) \in Punctuation THEN punc_repl ELSE <<Head(s)>>)
         \o replace_punctuation(Tail(s), punc_repl)

\* the last index of the run of word characters that starts at i
RECURSIVE WordEnd(_, _)
WordEnd(s, i) ==
  IF i < Len(s) /\ s[i + 1] \in WordChars THEN WordEnd(s, i + 1) ELSE i

\* re.sub(r"\b(a|an|the)\b", " ", s) from index i on; i starts a word or
\* is not a word character
RECURSIVE RemoveArticlesFrom(_, _)
RemoveArticlesFrom(s, i) ==
  IF i > Len(s) THEN <<>>
  ELSE IF s[i] \in WordChars
  THEN LET j == WordEnd(s, i)
           word == SubSeq(s, i, j)
       IN  (IF word \in Articles THEN <<" ">> ELSE word)
             \o RemoveArticlesFrom(s, j + 1)
  ELSE <<s[i]>> \o RemoveArticlesFrom(s, i + 1)

remove_articles(s) == RemoveArticlesFrom(s, 1)

\* s.split(): the maximal runs of non-whitespace characters
RECURSIVE SplitFrom(_, _, _)
SplitFrom(s, i, cur) ==
  IF i > Len(s) THEN (IF cur = <<>> THEN <<>> ELSE <<cur>>)
  ELSE IF s[i] \in Whitespace
  THEN (IF cur = <<>> THEN <<>> ELSE <<cur>>) \o SplitFrom(s, i + 1, <<>>)
  ELSE SplitFrom(s, i + 1, Append(cur, s[i]))

split(s) == SplitFrom(s, 1, <<>>)

\* sep.join(tokens)
RECURSIVE join(_, _)
join(sep, tokens) ==
  IF tokens = <<>> THEN <<>>
  ELSE IF Len(tokens) = 1 THEN tokens[1]
  ELSE tokens[1] \o sep \o join(sep, Tail(tokens))

white_space_fix(s) == join(<<" ">>, split(s))

normalize_squad(text) ==
  white_space_fix(remove_articles(replace_punctuation(lower(text), <<>>)))

(***************************************************************************)
(* sqa_s_metrics                                                           *)
(***************************************************************************)
\* sqa_s_metrics looking only at the first ground truth for NO_ANSWER
sqa_s_metrics_first_only(prediction, ground_truths) ==
  IF prediction = NO_ANSWER
  THEN (IF ground_truths # <<>> /\ ground_truths[1] = NO_ANSWER
        THEN <<One, One>> ELSE <<Zero, Zero>>)
  ELSE <<Zero, Zero>>

sqa_s_metrics(prediction, ground_truths) ==
  IF prediction = NO_ANSWER
  THEN (IF \E i \in DOMAIN ground_truths : ground_truths[i] = NO_ANSWER
        THEN <<One, One>> ELSE <<Zero, Zero>>)
  ELSE
    LET kept == SelectSeq(ground_truths, LAMBDA gt : gt # NO_ANSWER)
    IN  IF kept = <<>> THEN <<Zero, Zero>>
        ELSE
          LET pred == normalize_squad(prediction)
              gts == [i \in DOMAIN kept |-> normalize_squad(kept[i])]
              prediction_tokens == split(pred)
              exact_match == IF \E i \in DOMAIN gts : gts[i] = pred
                             THEN One ELSE Zero
              f1 == MaxOf([i \in DOMAIN gts |->
                             f1_score(prediction_tokens, split(gts[i]))])
          IN  <<exact_match, f1>>

\* the module functions sqa_s_metrics calls on that input
sqa_s_metrics_calls(prediction, ground_truths) ==
  IF prediction = NO_ANSWER THEN {}
  ELSE IF SelectSeq(ground_truths, LAMBDA gt : gt # NO_ANSWER) = <<>> THEN {}
  ELSE {"normalize_squad", "f1_score"}

(***************************************************************************)
(* sqa_uic_metrics: an element is a content value, a list is a sequence.   *)
(***************************************************************************)
sqa_uic_metrics(prediction, ground_truths) ==
  IF prediction = <<>>
  THEN (IF \E i \in DOMAIN ground_truths : ground_truths[i] = <<>>
        THEN <<One, One>> ELSE <<Zero, Zero>>)
  ELSE
    LET kept == SelectSeq(ground_truths, LAMBDA gt : gt # <<>>)
    IN  IF kept = <<>> THEN <<Zero, Zero>>
        ELSE
          LET exact_match == IF \E i \in DOMAIN kept : kept[i] = prediction
                             THEN One ELSE Zero
              f1 == MaxOf([i \in DOMAIN kept |-> f1_score(prediction, kept[i])])
          IN  <<exact_match, f1>>

sqa_uic_metrics_calls(prediction, ground_truths) ==
  IF prediction = <<>> THEN {}
  ELSE IF SelectSeq(ground_truths, LAMBDA gt : gt # <<>>) = <<>> THEN {}
  ELSE {"f1_score"}

(***************************************************************************)
(* sqa_uic_bb_metrics: an element is <<bbox, content>>.                    *)
(***************************************************************************)
\* the default of the iou_threshold parameters
DefaultIouThreshold == <<1, 10>>

ui_elements_match(element1, element2, iou_threshold) ==
  /\ element1[2] = element2[2]
  /\ RatLeq(iou_threshold, iou(element1[1], element2[1]))

uic_bb_exact_match(elements1, elements2, iou_threshold) ==
  /\ Len(elements1) = Len(elements2)
  /\ \A i \in DOMAIN elements1 :
       ui_elements_match(elements1[i], elements2[i], iou_threshold)

\* score_func=iou, on the boxes of A and B
iou_score(A, B) == [p \in CrossPairs(A, B) |-> iou(p[1], p[2])]

\* lambda x, y: (iou(x[0], y[0]) if x[1] == y[1] else 0), on the elements
\* of A and B
content_iou(A, B) ==
  [p \in CrossPairs(A, B) |->
     IF p[1][2] = p[2][2] THEN iou(p[1][1], p[2][1]) ELSE Zero]

\* [bbox for bbox, _ in elements]
bboxes(elements) == [i \in DOMAIN elements |-> elements[i][1]]

sqa_uic_bb_metrics(prediction, ground_truths, iou_threshold, solver) ==
  IF prediction = <<>>
  THEN (IF \E i \in DOMAIN ground_truths : ground_truths[i] = <<>>
        THEN <<One, One, One>> ELSE <<Zero, Zero, Zero>>)
  ELSE
    LET kept == SelectSeq(ground_truths, LAMBDA gt : gt # <<>>)
    IN  IF kept = <<>> THEN <<Zero, Zero, Zero>>
        ELSE
          LET bbox_f1 == MaxOf([i \in DOMAIN kept |->
                           uic_bb_f1_score(bboxes(prediction), bboxes(kept[i]),
                                           iou_score(bboxes(prediction), bboxes(kept[i])),
                                           iou_threshold, solver)])
              \* uic_bb_exact_match(prediction, gt): the threshold is not
              \* passed on, the default of the callee applies
              exact_match == \E i \in DOMAIN kept :
                               uic_bb_exact_match(prediction, kept[i],
                                                  DefaultIouThreshold)
              f1 == MaxOf([i \in DOMAIN kept |->
                      uic_bb_f1_score(prediction, kept[i],
                                      content_iou(prediction, kept[i]),
                                      iou_threshold, solver)])
          IN  <<bbox_f1, IF exact_match THEN One ELSE Zero, f1>>

sqa_uic_bb_metrics_calls(prediction, ground_truths) ==
  IF prediction = <<>> THEN {}
  ELSE IF SelectSeq(ground_truths, LAMBDA gt : gt # <<>>) = <<>> THEN {}
  ELSE {"uic_bb_f1_score", "uic_bb_exact_match"}

\* the matrices sqa_uic_bb_metrics hands to the solver on that input
BBMatrices(a) ==
  IF a.prediction = <<>> THEN {}
  ELSE UNION {
         IF a.ground_truths[i] = <<>> THEN {}
         ELSE { Negate(cost_matrix(bboxes(a.prediction), bboxes(a.ground_truths[i]),
                                   iou_score(bboxes(a.prediction),
                                             bboxes(a.ground_truths[i])),
                                   a.iou_threshold)),
                Negate(cost_matrix(a.prediction, a.ground_truths[i],
                                   content_iou(a.prediction, a.ground_truths[i]),
                                   a.iou_threshold)) }
         : i \in DOMAIN a.ground_truths }

(***************************************************************************)
(* The entry points' inputs, by size.                                      *)
(***************************************************************************)
TextAlphabet == {"a", "B", " ", "."}
BoxPool == {<<0, 0, 1, 2>>, <<0, 0, 1, 1>>, <<0, 1, 1, 3>>}
BBContents == {"btn", "lbl"}
Elements == BoxPool \X BBContents
IouThresholds == {DefaultIouThreshold, <<1, 2>>}

TextSize(t) == IF t = NO_ANSWER THEN 1 ELSE Len(t)

TextsUpTo(w) ==
  IF w < 1 THEN {<<>>} ELSE SeqsUpTo(TextAlphabet, w) \cup {NO_ANSWER}

\* the lists of ground-truth texts of total size at most w
RECURSIVE TextGroundTruths(_)
TextGroundTruths(w) ==
  IF w < 1 THEN {<<>>}
  ELSE {<<>>} \cup UNION { {<<g>> \o rest : rest \in TextGroundTruths(w - 1 - TextSize(g))}
                           : g \in TextsUpTo(w - 1) }

\* the lists of ground-truth lists over E of total size at most w
RECURSIVE ListGroundTruths(_, _)
ListGroundTruths(E, w) ==
  IF w < 1 THEN {<<>>}
  ELSE {<<>>} \cup UNION { {<<g>> \o rest : rest \in ListGroundTruths(E, w - 1 - Len(g))}
                           : g \in SeqsUpTo(E, w - 1) }

TextInputs ==
  UNION { [prediction : {p}, ground_truths : TextGroundTruths(MaxTextSize - TextSize(p))]
          : p \in TextsUpTo(MaxTextSize) }

UicInputs ==
  UNION { [prediction : {p}, ground_truths : ListGroundTruths(Contents, MaxUicSize - Len(p))]
          : p \in SeqsUpTo(Contents, MaxUicSize) }

BBInputs ==
  UNION { [prediction : {p},
           ground_truths : ListGroundTruths(Elements, MaxBBSize - Len(p)),
           iou_threshold : IouThresholds]
          : p \in SeqsUpTo(Elements, MaxBBSize) }

Init ==
  /\ pc = "start"
  /\ returned = <<>>
  /\ called = {}
  /\ \/ fn = "sqa_s_metrics" /\ args \in TextInputs /\ lsa = <<>>
     \/ fn = "sqa_uic_metrics" /\ args \in UicInputs /\ lsa = <<>>
     \/ fn = "sqa_uic_bb_metrics" /\ args \in BBInputs
          /\ lsa \in Solvers(BBMatrices(args))

Call_sqa_s_metrics ==
  /\ fn = "sqa_s_metrics" /\ pc = "start"
  /\ returned' = <<sqa_s_metrics(args.prediction, args.ground_truths)>>
  /\ called' = sqa_s_metrics_calls(args.prediction, args.ground_truths)
  /\ pc' = "done"
  /\ UNCHANGED <<fn, args, lsa>>

Call_sqa_uic_metrics ==
  /\ fn = "sqa_uic_metrics" /\ pc = "start"
  /\ returned' = <<sqa_uic_metrics(args.prediction, args.ground_truths)>>
  /\ called' = sqa_uic_metrics_calls(args.prediction, args.ground_truths)
  /\ pc' = "done"
  /\ UNCHANGED <<fn, args, lsa>>

Call_sqa_uic_bb_metrics ==
  /\ fn = "sqa_uic_bb_metrics" /\ pc = "start"
  /\ returned' = <<sqa_uic_bb_metrics(args.prediction, args.ground_truths,
                                      args.iou_threshold, lsa)>>
  /\ called' = sqa_uic_bb_metrics_calls(args.prediction, args.ground_truths)
  /\ pc' = "done"
  /\ UNCHANGED <<fn, args, lsa>>

Next == Call_sqa_s_metrics \/ Call_sqa_uic_metrics \/ Call_sqa_uic_bb_metrics

Spec == Init /\ [][Next]_vars

(***************************************************************************)
(* Properties.                                                             *)
(***************************************************************************)
EntryPoints == {"sqa_s_metrics", "sqa_uic_metrics", "sqa_uic_bb_metrics"}

\* the no-answer value of the entry point called
NoAnswer == IF fn = "sqa_s_metrics" THEN NO_ANSWER ELSE <<>>

\* the index of the Exact Match component and of the F1 component
EMIndex == IF fn = "sqa_uic_bb_metrics" THEN 2 ELSE 1
F1Index == IF fn = "sqa_uic_bb_metrics" THEN 3 ELSE 2

\* C1: with a non-empty prediction, EM@IoU of sqa_uic_bb_metrics is 1 iff
\* some non-empty ground truth has the prediction's length and matches it
\* position by position (equal content, iou >= the iou_threshold the caller
\* passed), and 0 otherwise.
C1_ExactMatchAtCallerThreshold ==
  (fn = "sqa_uic_bb_metrics" /\ pc = "done" /\ args.prediction # <<>>) =>
    LET P == args.prediction
        matched == \E g \in DOMAIN args.ground_truths :
                     LET G == args.ground_truths[g]
                     IN  /\ G # <<>>
                         /\ Len(G) = Len(P)
                         /\ \A k \in DOMAIN P :
                              /\ P[k][2] = G[k][2]
                              /\ RatLeq(args.iou_threshold, iou(P[k][1], G[k][1]))
    IN  returned[1][2] = (IF matched THEN One ELSE Zero)

\* the one-to-one pairings of n rows with m columns, of any size
Pairings(n, m) ==
  {M \in SUBSET ((1..n) \X (1..m)) :
     \A p, q \in M : (p[1] = q[1] \/ p[2] = q[2]) => p = q}

\* the thresholded score of a pair
Cell(scores, t, p) == IF RatLeq(t, scores[p]) THEN scores[p] ELSE Zero

RECURSIVE PairingValue(_, _, _)
PairingValue(scores, t, M) ==
  IF M = {} THEN Zero
  ELSE LET p == CHOOSE q \in M : TRUE
       IN  RatAdd(Cell(scores, t, p), PairingValue(scores, t, M \ {p}))

\* C2: uic_bb_f1_score returns 1 for two empty lists and 0 when exactly one
\* is empty; otherwise there is a one-to-one assignment of rows to columns
\* whose total thresholded score is maximal over all one-to-one pairings,
\* and with matches the number of its pairs whose cell is >= threshold the
\* result is 0 if matches = 0 and else the harmonic mean of matches/|A| and
\* matches/|B|, that is 2 * matches / (|A| + |B|).
C2_AssignmentF1 ==
  (fn = "uic_bb_f1_score" /\ pc # "start") =>
    LET n == Len(args.prediction)
        m == Len(args.ground_truth)
        t == args.threshold
        values == {PairingValue(args.scores, t, M2) : M2 \in Pairings(n, m)}
        best == {M \in Pairings(n, m) :
                   /\ Cardinality(M) = Min2(n, m)
                   /\ \A v \in values : RatLeq(v, PairingValue(args.scores, t, M))}
        f1(M) == LET matches == Cardinality({p \in M : RatLeq(t, Cell(args.scores, t, p))})
                 IN  IF matches = 0 THEN Zero ELSE Rat(2 * matches, n + m)
    IN  IF n = 0 /\ m = 0 THEN returned[1] = One
        ELSE IF n = 0 \/ m = 0 THEN returned[1] = Zero
        ELSE \E M \in best : returned[1] = f1(M)

\* two rows compete for the first column; the row-by-row greedy choice
\* leaves the second row unmatched, the optimum matches both
C2_Witness ==
  /\ fn = "uic_bb_f1_score" /\ pc = "called"
  /\ Len(args.prediction) = 2 /\ Len(args.ground_truth) = 2
  /\ args.threshold = <<1, 2>>
  /\ args.scores[<<1, 1>>] = One /\ args.scores[<<1, 2>>] = One
  /\ args.scores[<<2, 1>>] = One /\ args.scores[<<2, 2>>] = Zero
  /\ returned = <<One>>

\* C3: when the prediction is the no-answer value, every component returned
\* is 1 if some ground truth is the no-answer value and 0 otherwise, and
\* the entry point has called no comparison helper.
C3_NoAnswerShortCircuit ==
  (fn \in EntryPoints /\ pc = "done" /\ args.prediction = NoAnswer) =>
    LET some == \E g \in DOMAIN args.ground_truths : args.ground_truths[g] = NoAnswer
    IN  /\ called = {}
        /\ \A k \in DOMAIN returned[1] :
             returned[1][k] = (IF some THEN One ELSE Zero)

\* NO_ANSWER predicted, the no-answer ground truth second after a text
C3_Witness ==
  /\ fn = "sqa_s_metrics" /\ pc = "done"
  /\ args.prediction = NO_ANSWER
  /\ Len(args.ground_truths) = 2
  /\ args.ground_truths[1] = <<"B">>
  /\ args.ground_truths[2] = NO_ANSWER
  /\ returned = <<(<<One, One>>)>>

\* C4: for non-empty lists of content-only elements, f1_score equals
\* uic_bb_f1_score with plain equality as score_func, for every threshold
\* in (0, 1] and whichever optimal assignment the solver returns.
C4_TokenF1IsAssignmentF1 ==
  (fn = "f1_score" /\ pc = "done"
     /\ args.prediction # <<>> /\ args.ground_truth # <<>>) =>
    returned[1] = returned[2]

\* duplicates on both sides, a partial overlap
C4_Witness ==
  /\ fn = "f1_score" /\ pc = "done"
  /\ args.prediction = <<"btn", "btn", "lbl">>
  /\ args.ground_truth = <<"btn", "btn">>
  /\ returned = <<(<<4, 5>>), (<<4, 5>>)>>

\* C5: the F1 uic_bb_f1_score returns is the same whichever optimal
\* assignment the solver returns.
C5_SameF1ForEveryOptimalAssignment ==
  (fn = "uic_bb_f1_score" /\ pc # "start") =>
    \A s \in Solvers(AssignMatrices(args)) :
      uic_bb_f1_score(args.prediction, args.ground_truth, table_score(args),
                      args.threshold, s) = returned[1]

\* C6: for a symmetric score_func, uic_bb_f1_score(A, B, ...) equals
\* uic_bb_f1_score(B, A, ...).
C6_AssignmentF1Symmetric ==
  (fn = "uic_bb_f1_score" /\ pc = "done") => returned[1] = returned[2]

\* C7: every component an entry point returns lies in [0, 1], and the
\* Exact Match component is 0 or 1 (the boxes drawn are all valid).
C7_ComponentsInUnitInterval ==
  (fn \in EntryPoints /\ pc = "done") =>
    /\ \A k \in DOMAIN returned[1] :
         RatLeq(Zero, returned[1][k]) /\ RatLeq(returned[1][k], One)
    /\ returned[1][EMIndex] \in {Zero, One}

\* a boxed prediction of two elements, one of them matched
C7_Witness ==
  /\ fn = "sqa_uic_bb_metrics" /\ pc = "done"
  /\ Len(args.prediction) = 2
  /\ \A g \in DOMAIN args.ground_truths :
       \A k \in DOMAIN args.ground_truths[g] :
         ValidBox(args.ground_truths[g][k][1])
  /\ returned = <<(<<One, Zero, <<1, 2>>>>)>>

\* the unit cells of the grid a box covers
Cells(b) ==
  {c \in (0..MaxCoord) \X (0..MaxCoord) :
     b[1] <= c[1] /\ c[1] < b[3] /\ b[2] <= c[2] /\ c[2] < b[4]}

\* C8: for valid boxes iou(b1, b2) = iou(b2, b1), it lies in [0, 1], and
\* it is 0 whenever the boxes share no area (the cells of the grid both
\* cover), two zero-area boxes included.
C8_IouSymmetricInUnitInterval ==
  (fn = "iou" /\ pc = "done" /\ ValidBox(args.bbox1) /\ ValidBox(args.bbox2)) =>
    /\ returned[1] = returned[2]
    /\ returned[1] # "ZeroDivisionError"
    /\ RatLeq(Zero, returned[1]) /\ RatLeq(returned[1], One)
    /\ (Cells(args.bbox1) \cap Cells(args.bbox2) = {} => returned[1] = Zero)

\* two boxes of area 2 that share one cell
C8_Witness ==
  /\ fn = "iou" /\ pc = "done"
  /\ args.bbox1 = <<0, 0, 1, 2>> /\ args.bbox2 = <<0, 1, 2, 2>>
  /\ returned = <<(<<1, 3>>), (<<1, 3>>)>>

\* C9: whenever the Exact Match component an entry point returns is 1, so
\* is its F1 component (for sqa_uic_bb_metrics at the default threshold).
C9_ExactMatchImpliesF1 ==
  (/\ fn \in EntryPoints /\ pc = "done"
   /\ (fn = "sqa_uic_bb_metrics" => args.iou_threshold = DefaultIouThreshold)
   /\ returned[1][EMIndex] = One) =>
    returned[1][F1Index] = One

\* C10: for an iou_threshold > 0 the content-gated F1@IoU of
\* sqa_uic_bb_metrics is never greater than its BBox-F1@IoU.
C10_GatedF1AtMostBBoxF1 ==
  (fn = "sqa_uic_bb_metrics" /\ pc = "done" /\ RatLt(Zero, args.iou_threshold)) =>
    RatLeq(returned[1][3], returned[1][1])

=============================================================================
